---- MODULE Spec2Model ----
(***************************************************************************)
(* Model of flipper.py, the DNS record flipper: the three command paths of *)
(* main() (check, flip, flip_app), search_records and flip_record, run     *)
(* against a DNS provider that holds a list of records and may fail any    *)
(* call.  Strings whose characters matter (domain names, value strings)    *)
(* are sequences of one-character strings.                                 *)
(***************************************************************************)
EXTENDS Naturals, Sequences, FiniteSets, TLC

VARIABLES
    args,           \* the parsed command line (argparse namespace)
    flip_config,    \* the parsed configuration: application name -> records
    zone_data,      \* the provider's records, in the order searchZone returns them
    pc,             \* position of main(): start, loop, flip, done, failed, crashed
    idx,            \* flip_app: 1-based position of the for loop in the record list
    zone,           \* flip_app: zone taken from the first matching record
    flips_summary,  \* flip_app: the summary lines collected so far
    out,            \* what was printed
    exc,            \* the exception that ended the process, or "none"
    calls,          \* log of the provider calls issued (searchZone, loadRecord, update)
    file,           \* parse_flip_config: the lines of the configuration file
    lineno,         \* parse_flip_config: the number of lines read so far
    current_application,  \* parse_flip_config: the application of the last header
    current_record, \* parse_flip_config: the record being accumulated
    runs            \* the completed flip_app runs: site and provider records at the end

\* the local state of parse_flip_config
parse_vars == <<file, lineno, current_application, current_record>>

vars == <<args, flip_config, zone_data, pc, idx, zone, flips_summary, out, exc, calls,
          parse_vars, runs>>

----------------------------------------------------------------------------
(* Bounds *)

MaxRecords == 3
MaxDb == 3
MaxRuns == 2
MaxChunks == 3

----------------------------------------------------------------------------
(* Strings *)

\* str.endswith
EndsWith(s, suffix) ==
    /\ Len(s) >= Len(suffix)
    /\ SubSeq(s, Len(s) - Len(suffix) + 1, Len(s)) = suffix

\* the position of the first separator in s, or 0
RECURSIVE FindFrom(_, _, _)
FindFrom(s, sep, k) ==
    IF k > Len(s) THEN 0
    ELSE IF s[k] = sep THEN k
    ELSE FindFrom(s, sep, k + 1)

\* str.split(sep) for a one-character separator
RECURSIVE Split(_, _)
Split(s, sep) ==
    LET k == FindFrom(s, sep, 1)
    IN  IF k = 0 THEN <<s>>
        ELSE <<SubSeq(s, 1, k - 1)>> \o Split(SubSeq(s, k + 1, Len(s)), sep)

\* new_value.split(',') where the flip_app path calls flip_record
SplitValues_unsplit(new_value) == <<new_value>>

SplitValues(new_value) == Split(new_value, ",")

\* f"{a}.{b}"-style concatenation used by the suffix test: '.' + fqdn
DotPrefixed(fqdn) == <<".">> \o fqdn

----------------------------------------------------------------------------
(* Inputs *)

None == "None"
NoStr == <<>>

FqdnA == <<"a">>
FqdnWA == <<"w", ".", "a">>
FqdnWAnodot == <<"w", "a">>

Fqdns == {FqdnA, FqdnWA}
Zones == {"z1", "z2"}
Sites == {"primary", "secondary"}
LocatorTypes == {"A", "CNAME"}

\* the answers a provider record holds before any flip
OldAnswers == << [answer |-> << <<"o">> >>] >>

\* declared records, as parse_flip_config builds them
RecordPool ==
    { [fqdn |-> <<FqdnA, "A">>,
       primary |-> <<"x", ",", "y">>, secondary |-> <<"z">>],
      [fqdn |-> <<FqdnWA, "CNAME">>,
       primary |-> <<"x">>, secondary |-> <<"y", ",">>] }

\* provider records, as searchZone returns them
DbPool ==
    { [domain |-> FqdnA, zone |-> "z1", type |-> "A", answers |-> OldAnswers],
      [domain |-> FqdnA, zone |-> "z2", type |-> "CNAME", answers |-> OldAnswers],
      [domain |-> FqdnWA, zone |-> "z2", type |-> "CNAME", answers |-> OldAnswers],
      [domain |-> FqdnWAnodot, zone |-> "z1", type |-> "A", answers |-> OldAnswers],
      [domain |-> FqdnA, zone |-> "z1", type |-> "TXT", answers |-> OldAnswers] }

SeqUpTo(S, n) == UNION { [1..k -> S] : k \in 0..n }

RecordKey(r) == <<r.domain, r.type, r.zone>>

\* a provider holds at most one record per (domain, type, zone)
DbStates ==
    { db \in SeqUpTo(DbPool, MaxDb) :
        \A i, j \in DOMAIN db : RecordKey(db[i]) = RecordKey(db[j]) => i = j }

ConfigStates == [ {"app1"} -> SeqUpTo(RecordPool, MaxRecords) ]

EmptyConfig == [ a \in {} |-> <<>> ]

\* current_application = None, as a dictionary key: no string equals it
NoApp == <<None>>

\* current_record = {}
EmptyRecord == [ k \in {} |-> <<>> ]

NoArgs ==
    [action |-> "none", app |-> None, site |-> None, list |-> FALSE, fqdn |-> NoStr,
     record_type |-> None, zone |-> None, new_values |-> <<>>]

----------------------------------------------------------------------------
(* search_records: the Record Locator *)

\* the same test without the separating dot
KeepResult_nodot(result, fqdn) ==
    /\ result.type \in LocatorTypes
    /\ EndsWith(result.domain, fqdn)

\* the test applied to one searchZone result: type A or CNAME, and the domain
\* is the fqdn or ends with '.' + fqdn
KeepResult(result, fqdn) ==
    /\ result.type \in LocatorTypes
    /\ \/ result.domain = fqdn
       \/ EndsWith(result.domain, DotPrefixed(fqdn))

\* [answer['answer'][0] for answer in result.get('answers', [])]
RecordValues(answers) == [ i \in DOMAIN answers |-> answers[i].answer[1] ]

\* the tuple (domain, zone, record_type, record_values)
ResolvedRecord(result) ==
    <<result.domain, result.zone, result.type, RecordValues(result.answers)>>

\* the value returned when searchZone succeeds with `results`
search_records(results, fqdn) ==
    LET kept == SelectSeq(results, LAMBDA r : KeepResult(r, fqdn))
    IN  [ i \in DOMAIN kept |-> ResolvedRecord(kept[i]) ]

----------------------------------------------------------------------------
(* flip_record: the Flip Executor, and the provider operations it uses *)

\* loadRecord finds a record only under its exact (domain, type, zone)
HasRecord(db, fqdn, record_type, z) ==
    \E i \in DOMAIN db : RecordKey(db[i]) = <<fqdn, record_type, z>>

NewAnswers_append(old, new_values) ==
    old \o [ i \in DOMAIN new_values |-> [answer |-> <<new_values[i]>>] ]

\* new_answers = [{"answer": [value]} for value in new_values], which
\* record.update(answers=new_answers) stores in place of the old answers
NewAnswers(old, new_values) ==
    [ i \in DOMAIN new_values |-> [answer |-> <<new_values[i]>>] ]

\* the provider's records after a successful flip_record
Updated(db, fqdn, record_type, z, new_values) ==
    [ i \in DOMAIN db |->
        IF RecordKey(db[i]) = <<fqdn, record_type, z>>
        THEN [db[i] EXCEPT !.answers = NewAnswers(db[i].answers, new_values)]
        ELSE db[i] ]

Call(op, i, fqdn, record_type, z, values, ok) ==
    [op |-> op, idx |-> i, fqdn |-> fqdn, record_type |-> record_type,
     zone |-> z, values |-> values, ok |-> ok]

SearchCall(i, fqdn, ok) == Call("searchZone", i, fqdn, None, None, <<>>, ok)
LoadCall(i, fqdn, record_type, z, ok) ==
    Call("loadRecord", i, fqdn, record_type, z, <<>>, ok)
UpdateCall(i, fqdn, record_type, z, values, ok) ==
    Call("update", i, fqdn, record_type, z, values, ok)

----------------------------------------------------------------------------
(* main: the flip action *)

FlipOneApplied ==
    /\ pc = "start" /\ args.action = "flip"
    /\ HasRecord(zone_data, args.fqdn, args.record_type, args.zone)
    /\ zone_data' = Updated(zone_data, args.fqdn, args.record_type, args.zone,
                            args.new_values)
    /\ calls' = calls \o
         << LoadCall(0, args.fqdn, args.record_type, args.zone, TRUE),
            UpdateCall(0, args.fqdn, args.record_type, args.zone,
                       args.new_values, TRUE) >>
    /\ pc' = "done"
    /\ UNCHANGED <<args, flip_config, idx, zone, flips_summary, out, exc,
                 parse_vars, runs>>

\* loadRecord raises; main catches it, prints and returns
FlipOneLoadFail ==
    /\ pc = "start" /\ args.action = "flip"
    /\ calls' = Append(calls,
         LoadCall(0, args.fqdn, args.record_type, args.zone, FALSE))
    /\ out' = Append(out, [line |-> "flip_error", fqdn |-> args.fqdn])
    /\ pc' = "done"
    /\ UNCHANGED <<args, flip_config, zone_data, idx, zone, flips_summary, exc,
                 parse_vars, runs>>

\* update raises; main catches it, prints and returns
FlipOneUpdateFail ==
    /\ pc = "start" /\ args.action = "flip"
    /\ HasRecord(zone_data, args.fqdn, args.record_type, args.zone)
    /\ calls' = calls \o
         << LoadCall(0, args.fqdn, args.record_type, args.zone, TRUE),
            UpdateCall(0, args.fqdn, args.record_type, args.zone,
                       args.new_values, FALSE) >>
    /\ out' = Append(out, [line |-> "flip_error", fqdn |-> args.fqdn])
    /\ pc' = "done"
    /\ UNCHANGED <<args, flip_config, zone_data, idx, zone, flips_summary, exc,
                 parse_vars, runs>>

----------------------------------------------------------------------------
(* main: the check action *)

CheckMatching_all(records, fqdn) == records

\* matching_records = [record for record in records if record[0] == args.fqdn]
CheckMatching(records, fqdn) == SelectSeq(records, LAMBDA r : r[1] = fqdn)

\* the lines printed for the matching records, or the not-found line
CheckLines(matching, fqdn) ==
    IF matching = <<>>
    THEN << [line |-> "no_records", fqdn |-> fqdn] >>
    ELSE [ i \in DOMAIN matching |->
            [line |-> "record", domain |-> matching[i][1], zone |-> matching[i][2],
             record_type |-> matching[i][3], record_values |-> matching[i][4]] ]

CheckReport ==
    /\ pc = "start" /\ args.action = "check"
    /\ calls' = Append(calls, SearchCall(0, args.fqdn, TRUE))
    /\ out' = out \o CheckLines(
                 CheckMatching(search_records(zone_data, args.fqdn), args.fqdn),
                 args.fqdn)
    /\ pc' = "done"
    /\ UNCHANGED <<args, flip_config, zone_data, idx, zone, flips_summary, exc,
                 parse_vars, runs>>

\* searchZone raises: search_records prints and returns None, and the list
\* comprehension over None raises TypeError, which nothing catches
CheckSearchFail ==
    /\ pc = "start" /\ args.action = "check"
    /\ calls' = Append(calls, SearchCall(0, args.fqdn, FALSE))
    /\ out' = Append(out, [line |-> "search_error", fqdn |-> args.fqdn])
    /\ exc' = "TypeError"
    /\ pc' = "crashed"
    /\ UNCHANGED <<args, flip_config, zone_data, idx, zone, flips_summary,
                 parse_vars, runs>>

----------------------------------------------------------------------------
(* main: the flip_app action *)

AppInConfig_always(config, app) == TRUE

\* app_name in flip_config
AppInConfig(config, app) == app \in DOMAIN config

\* flip_config[app_name]; flip_config is a defaultdict(list)
AppRecords(config, app) == IF app \in DOMAIN config THEN config[app] ELSE <<>>

\* the dictionary after flip_config[app]: a defaultdict(list) inserts an empty
\* list under a key it does not hold
AfterGetItem(config, app) ==
    [ k \in DOMAIN config \cup {app} |-> IF k \in DOMAIN config THEN config[k] ELSE <<>> ]

Records == AppRecords(flip_config, args.app)

\* fqdn, record_type = record['fqdn'];  new_value = record[site]
CurFqdn == Records[idx].fqdn[1]
CurType == Records[idx].fqdn[2]
CurValue == Records[idx][args.site]

FlipMatching_all(records, fqdn) == records

\* matching_records = [r for r in search_results if r[0] == fqdn]
FlipMatching(records, fqdn) == SelectSeq(records, LAMBDA r : r[1] = fqdn)

CurMatching == FlipMatching(search_records(zone_data, CurFqdn), CurFqdn)

\* record['fqdn'] and record[site] exist: neither subscript raises KeyError
RecordUsable(record, site) ==
    "fqdn" \in DOMAIN record /\ site \in DOMAIN record

WarningLine(fqdn) == [status |-> "skipped-no-match", fqdn |-> fqdn]
AppliedLine(fqdn, record_type, new_value) ==
    [status |-> "applied", fqdn |-> fqdn, record_type |-> record_type,
     new_value |-> new_value]

\* the application is not a key of the configuration: the else branch
FlipAppNotFound ==
    /\ pc = "start" /\ args.action = "flip_app" /\ ~args.list
    /\ ~AppInConfig(flip_config, args.app)
    /\ out' = Append(out, [line |-> "app_not_found", app |-> args.app])
    /\ pc' = "failed"
    /\ UNCHANGED <<args, flip_config, zone_data, idx, zone, flips_summary, exc,
                 calls, parse_vars, runs>>

FlipAppBegin ==
    /\ pc = "start" /\ args.action = "flip_app" /\ ~args.list
    /\ AppInConfig(flip_config, args.app)
    /\ out' = Append(out, [line |-> "flipping_app", app |-> args.app,
                           site |-> args.site])
    /\ flips_summary' = <<>>
    /\ idx' = 1
    /\ pc' = "loop"
    /\ flip_config' = AfterGetItem(flip_config, args.app)
    /\ UNCHANGED <<args, zone_data, zone, exc, calls, parse_vars, runs>>

FlippingLine == [line |-> "flipping", fqdn |-> CurFqdn,
                 record_type |-> CurType, new_value |-> CurValue]

\* the record lacks 'fqdn' or the site's key: the subscript raises KeyError,
\* which nothing catches
FlipAppKeyError ==
    /\ pc = "loop" /\ idx <= Len(Records)
    /\ ~RecordUsable(Records[idx], args.site)
    /\ exc' = "KeyError"
    /\ pc' = "crashed"
    /\ UNCHANGED <<args, flip_config, zone_data, idx, zone, flips_summary, out, calls,
                 parse_vars, runs>>

\* searchZone raises: search_records prints and returns None, and the list
\* comprehension over None raises TypeError, which nothing catches
FlipAppSearchFail ==
    /\ pc = "loop" /\ idx <= Len(Records)
    /\ RecordUsable(Records[idx], args.site)
    /\ calls' = Append(calls, SearchCall(idx, CurFqdn, FALSE))
    /\ out' = out \o << FlippingLine,
                        [line |-> "search_error", fqdn |-> CurFqdn] >>
    /\ exc' = "TypeError"
    /\ pc' = "crashed"
    /\ UNCHANGED <<args, flip_config, zone_data, idx, zone, flips_summary,
                 parse_vars, runs>>

FlipAppSkip_break ==
    /\ pc = "loop" /\ idx <= Len(Records)
    /\ RecordUsable(Records[idx], args.site)
    /\ CurMatching = <<>>
    /\ calls' = Append(calls, SearchCall(idx, CurFqdn, TRUE))
    /\ out' = Append(out, FlippingLine)
    /\ flips_summary' = Append(flips_summary, WarningLine(CurFqdn))
    /\ idx' = Len(Records) + 1
    /\ UNCHANGED <<args, flip_config, zone_data, pc, zone, exc, parse_vars, runs>>

\* no matching record: append the warning and continue with the next record
FlipAppSkip ==
    /\ pc = "loop" /\ idx <= Len(Records)
    /\ RecordUsable(Records[idx], args.site)
    /\ CurMatching = <<>>
    /\ calls' = Append(calls, SearchCall(idx, CurFqdn, TRUE))
    /\ out' = Append(out, FlippingLine)
    /\ flips_summary' = Append(flips_summary, WarningLine(CurFqdn))
    /\ idx' = idx + 1
    /\ UNCHANGED <<args, flip_config, zone_data, pc, zone, exc, parse_vars, runs>>

\* _, zone, _, _ = matching_records[0]
FlipAppLocated ==
    /\ pc = "loop" /\ idx <= Len(Records)
    /\ RecordUsable(Records[idx], args.site)
    /\ CurMatching # <<>>
    /\ calls' = Append(calls, SearchCall(idx, CurFqdn, TRUE))
    /\ out' = Append(out, FlippingLine)
    /\ zone' = CurMatching[1][2]
    /\ pc' = "flip"
    /\ UNCHANGED <<args, flip_config, zone_data, idx, flips_summary, exc,
                 parse_vars, runs>>

\* flip_record: loadRecord raises, and nothing in the flip_app path catches it
FlipAppLoadFail ==
    /\ pc = "flip"
    /\ calls' = Append(calls, LoadCall(idx, CurFqdn, CurType, zone, FALSE))
    /\ exc' = "ProviderError"
    /\ pc' = "crashed"
    /\ UNCHANGED <<args, flip_config, zone_data, idx, zone, flips_summary, out,
                 parse_vars, runs>>

\* flip_record: update raises, and nothing in the flip_app path catches it
FlipAppUpdateFail ==
    /\ pc = "flip"
    /\ HasRecord(zone_data, CurFqdn, CurType, zone)
    /\ calls' = calls \o
         << LoadCall(idx, CurFqdn, CurType, zone, TRUE),
            UpdateCall(idx, CurFqdn, CurType, zone, SplitValues(CurValue), FALSE) >>
    /\ exc' = "ProviderError"
    /\ pc' = "crashed"
    /\ UNCHANGED <<args, flip_config, zone_data, idx, zone, flips_summary, out,
                 parse_vars, runs>>

\* flip_record returns: append the summary line and take the next record
FlipAppApplied ==
    /\ pc = "flip"
    /\ HasRecord(zone_data, CurFqdn, CurType, zone)
    /\ zone_data' = Updated(zone_data, CurFqdn, CurType, zone, SplitValues(CurValue))
    /\ calls' = calls \o
         << LoadCall(idx, CurFqdn, CurType, zone, TRUE),
            UpdateCall(idx, CurFqdn, CurType, zone, SplitValues(CurValue), TRUE) >>
    /\ flips_summary' = Append(flips_summary, AppliedLine(CurFqdn, CurType, CurValue))
    /\ idx' = idx + 1
    /\ pc' = "loop"
    /\ UNCHANGED <<args, flip_config, zone, out, exc, parse_vars, runs>>

\* the loop is exhausted: print the summary
FlipAppReport ==
    /\ pc = "loop" /\ idx > Len(Records)
    /\ out' = out \o << [line |-> "summary", lines |-> flips_summary],
                        [line |-> "completed"] >>
    /\ pc' = "done"
    /\ runs' = Append(runs, [site |-> args.site, zone_data |-> zone_data])
    /\ UNCHANGED <<args, flip_config, zone_data, idx, zone, flips_summary, exc, calls,
                 parse_vars>>

----------------------------------------------------------------------------
(* main: flip_app with -list *)

AfterGet_getitem(config, app) == AfterGetItem(config, app)

\* the dictionary after flip_config.get(app_name, []): get inserts nothing
AfterGet(config, app) == config

\* the print loop over flip_config.items(): each application with its fqdns
ListAppsReport ==
    /\ pc = "start" /\ args.action = "flip_app" /\ args.list
    /\ args.app = None
    /\ out' = Append(out,
         [line |-> "applications",
          apps |-> [ a \in DOMAIN flip_config |->
                      [ i \in DOMAIN flip_config[a] |-> flip_config[a][i].fqdn[1] ] ]])
    /\ pc' = "done"
    /\ UNCHANGED <<args, flip_config, zone_data, idx, zone, flips_summary, exc, calls,
                 parse_vars, runs>>

\* app_config = flip_config.get(app_name, []) and the heading
ListDetailBegin ==
    /\ pc = "start" /\ args.action = "flip_app" /\ args.list
    /\ args.app # None
    /\ flip_config' = AfterGet(flip_config, args.app)
    /\ out' = Append(out, [line |-> "config_for", app |-> args.app])
    /\ idx' = 1
    /\ pc' = "list_loop"
    /\ UNCHANGED <<args, zone_data, zone, flips_summary, exc, calls, parse_vars, runs>>

DeclaredLine == [line |-> "declared", fqdn |-> CurFqdn,
                 primary |-> Records[idx].primary,
                 secondary |-> Records[idx].secondary]

\* matching_records = [r for r in records if r[0] == fqdn]
ListMatching(records, fqdn) == SelectSeq(records, LAMBDA r : r[1] = fqdn)

\* one declared record: its values, then the live records of its fqdn
ListDetailRecord ==
    /\ pc = "list_loop" /\ idx <= Len(Records)
    /\ calls' = Append(calls, SearchCall(idx, CurFqdn, TRUE))
    /\ out' = Append(out, DeclaredLine) \o
                CheckLines(ListMatching(search_records(zone_data, CurFqdn), CurFqdn),
                           CurFqdn)
    /\ idx' = idx + 1
    /\ UNCHANGED <<args, flip_config, zone_data, pc, zone, flips_summary, exc,
                 parse_vars, runs>>

\* search_records returned None: print the error and continue
ListDetailSearchFail ==
    /\ pc = "list_loop" /\ idx <= Len(Records)
    /\ calls' = Append(calls, SearchCall(idx, CurFqdn, FALSE))
    /\ out' = out \o << DeclaredLine,
                        [line |-> "search_error", fqdn |-> CurFqdn],
                        [line |-> "search_error", fqdn |-> CurFqdn] >>
    /\ idx' = idx + 1
    /\ UNCHANGED <<args, flip_config, zone_data, pc, zone, flips_summary, exc,
                 parse_vars, runs>>

ListDetailEnd ==
    /\ pc = "list_loop" /\ idx > Len(Records)
    /\ pc' = "done"
    /\ UNCHANGED <<args, flip_config, zone_data, idx, zone, flips_summary, out, exc,
                 calls, parse_vars, runs>>

----------------------------------------------------------------------------
(* The specification *)

InitCommon ==
    /\ zone_data \in DbStates
    /\ pc = "start"
    /\ idx = 0
    /\ zone = None
    /\ flips_summary = <<>>
    /\ out = <<>>
    /\ exc = "none"
    /\ calls = <<>>
    /\ runs = <<>>

\* parse_flip_config is not part of the run: the configuration is given
InitParsed ==
    /\ file = <<>>
    /\ lineno = 0
    /\ current_application = NoApp
    /\ current_record = EmptyRecord

InitCheck ==
    /\ \E f \in Fqdns : args = [NoArgs EXCEPT !.action = "check", !.fqdn = f]
    /\ flip_config = EmptyConfig

InitFlip ==
    /\ \E f \in Fqdns, t \in LocatorTypes, z \in Zones,
         v \in { <<<<"x">>>>, << <<"x">>, <<"y">> >> } :
         args = [NoArgs EXCEPT !.action = "flip", !.fqdn = f, !.record_type = t,
                               !.zone = z, !.new_values = v]
    /\ flip_config = EmptyConfig

InitFlipApp ==
    /\ \E a \in {"app1", "ghost"}, s \in Sites :
         args = [NoArgs EXCEPT !.action = "flip_app", !.app = a, !.site = s]
    /\ flip_config \in ConfigStates

InitList ==
    /\ \E a \in {None, "app1", "ghost"} :
         args = [NoArgs EXCEPT !.action = "flip_app", !.list = TRUE, !.app = a]
    /\ flip_config \in ConfigStates

Init == InitCommon /\ InitParsed /\ (InitCheck \/ InitFlip \/ InitFlipApp \/ InitList)

Next ==
    \/ CheckReport
    \/ CheckSearchFail
    \/ FlipOneApplied
    \/ FlipOneLoadFail
    \/ FlipOneUpdateFail
    \/ FlipAppNotFound
    \/ FlipAppBegin
    \/ FlipAppSearchFail
    \/ FlipAppSkip
    \/ FlipAppLocated
    \/ FlipAppLoadFail
    \/ FlipAppUpdateFail
    \/ FlipAppApplied
    \/ FlipAppReport
    \/ ListAppsReport
    \/ ListDetailBegin
    \/ ListDetailRecord
    \/ ListDetailSearchFail
    \/ ListDetailEnd

Spec == Init /\ [][Next]_vars

----------------------------------------------------------------------------
(* Vocabulary of the properties *)

IsFlipApp == args.action = "flip_app" /\ ~args.list
AppKnown == args.app \in DOMAIN flip_config
Terminal == pc \in {"done", "failed", "crashed"}
RecordIdx == 1..Len(Records)
DeclaredFqdn(i) == Records[i].fqdn[1]

CallsOf(op, i) == { k \in DOMAIN calls : calls[k].op = op /\ calls[k].idx = i }

\* searchZone was issued for the i-th declared record
Located(i) == CallsOf("searchZone", i) # {}
SearchSucceeded(i) == \E k \in CallsOf("searchZone", i) : calls[k].ok
SearchFailed(i) == \E k \in CallsOf("searchZone", i) : ~calls[k].ok

\* flip_record was entered for the i-th declared record: it starts with loadRecord
ExecutorCalls(i) == Cardinality(CallsOf("loadRecord", i))
ExecutorFailed(i) ==
    \E k \in CallsOf("loadRecord", i) \cup CallsOf("update", i) : ~calls[k].ok

\* positions of the provider records of type A or CNAME whose domain is fqdn
ExactHits(fqdn) ==
    { j \in DOMAIN zone_data :
        zone_data[j].domain = fqdn /\ zone_data[j].type \in LocatorTypes }

\* the batch goes on to the record after the i-th: its lookup is the next step
\* or has been issued; after the last record the loop is left normally
ContinuesAfter(i) ==
    IF i < Len(Records)
    THEN Located(i + 1) \/ (pc = "loop" /\ idx = i + 1)
    ELSE pc = "done" \/ (pc = "loop" /\ idx = i + 1)

\* the summary that was printed, if any
PrintedSummaries == { k \in DOMAIN out : out[k].line = "summary" }

----------------------------------------------------------------------------
(* C1: in flip_app, a declared record whose lookup succeeds with no matching *)
(* record gets a skipped-no-match line at its position in the summary, the  *)
(* executor is not entered for it, and the batch goes on to the next record. *)
C1_ZeroMatchSkippedAndContinues ==
    IsFlipApp =>
        \A i \in RecordIdx :
            (SearchSucceeded(i) /\ ExactHits(DeclaredFqdn(i)) = {}) =>
                /\ Len(flips_summary) >= i
                /\ flips_summary[i] = WarningLine(DeclaredFqdn(i))
                /\ ExecutorCalls(i) = 0
                /\ ContinuesAfter(i)

\* the first record found nothing at all, the second was located and flipped
C1_Witness ==
    /\ IsFlipApp /\ pc = "done" /\ Len(Records) >= 2
    /\ search_records(zone_data, DeclaredFqdn(1)) = <<>>
    /\ flips_summary[1].status = "skipped-no-match"
    /\ Located(2) /\ flips_summary[2].status = "applied"

(* C2: a flip_app run for an application of the model ends Done with the    *)
(* summary printed; the only other end is Failed, for an unknown application. *)
C2_EndsDoneOrFailed ==
    (IsFlipApp /\ Terminal) =>
        \/ pc = "done" /\ AppKnown /\ PrintedSummaries # {}
        \/ pc = "failed" /\ ~AppKnown

(* C3: when flip_record fails for a record (loadRecord or update raises),   *)
(* the record gets an error outcome and the batch goes on to the next record. *)
C3_ExecutorFailureIsolated ==
    IsFlipApp =>
        \A i \in RecordIdx :
            ExecutorFailed(i) =>
                /\ pc # "crashed"
                /\ Len(flips_summary) >= i
                /\ flips_summary[i].status = "error"
                /\ ContinuesAfter(i)

(* C4: when the provider search fails for a record, the failure is reported *)
(* for that record, is not taken for "no matches", and the batch goes on.   *)
C4_SearchFailureIsolated ==
    IsFlipApp =>
        \A i \in RecordIdx :
            SearchFailed(i) =>
                /\ pc # "crashed"
                /\ Len(flips_summary) >= i
                /\ flips_summary[i].status = "error"
                /\ ContinuesAfter(i)

(* C5: when flip_app ends for an application of the model, the printed      *)
(* summary has one outcome per declared record, in declaration order.       *)
C5_ReportCoversEveryRecord ==
    (IsFlipApp /\ AppKnown /\ Terminal) =>
        \E k \in PrintedSummaries :
            /\ Len(out[k].lines) = Len(Records)
            /\ \A i \in RecordIdx : out[k].lines[i].fqdn = DeclaredFqdn(i)

(* C6: flip_app for an application that is not in the model prints the      *)
(* not-found line and nothing else, issues no provider call and collects no *)
(* outcome: its one step ends the run as failed, and adds no key to the     *)
(* model.                                                                   *)
C6_UnknownAppNoProviderCalls ==
    /\ []((IsFlipApp /\ ~AppKnown) =>
            /\ calls = <<>>
            /\ flips_summary = <<>>
            /\ pc \in {"start", "failed"}
            /\ pc = "start" => out = <<>>
            /\ pc = "failed" =>
                   out = << [line |-> "app_not_found", app |-> args.app] >>)
    /\ [][(IsFlipApp /\ ~AppKnown /\ pc = "start") =>
            /\ pc' = "failed"
            /\ calls' = <<>>
            /\ flip_config' = flip_config]_vars

C6_Witness ==
    /\ IsFlipApp /\ ~AppKnown /\ pc = "failed"
    /\ zone_data # <<>>

(* C7: when flip_app ends, the executor was entered exactly once for every  *)
(* declared record that has a match and never for one without, and the      *)
(* number of executor calls is the number of applied outcomes of the report. *)
C7_ExecutorOncePerMatchedRecord ==
    (IsFlipApp /\ AppKnown /\ Terminal) =>
        /\ \A i \in RecordIdx :
              ExecutorCalls(i) = IF ExactHits(DeclaredFqdn(i)) # {} THEN 1 ELSE 0
        /\ Cardinality({ i \in DOMAIN flips_summary :
                           flips_summary[i].status = "applied" })
             = Cardinality({ c \in DOMAIN calls : calls[c].op = "loadRecord" })

----------------------------------------------------------------------------
\* the inverse of Split: the elements with the separator between them
RECURSIVE Join(_, _)
Join(parts, sep) ==
    IF parts = <<>> THEN <<>>
    ELSE IF Len(parts) = 1 THEN parts[1]
    ELSE parts[1] \o <<sep>> \o Join(Tail(parts), sep)

CallKey(c) == <<c.fqdn, c.record_type, c.zone>>

\* the successful updates that no later successful update of the same record
\* has overwritten
StandingUpdates ==
    { k \in DOMAIN calls :
        /\ calls[k].op = "update" /\ calls[k].ok
        /\ ~ \E k2 \in DOMAIN calls :
               /\ k2 > k /\ calls[k2].op = "update" /\ calls[k2].ok
               /\ CallKey(calls[k2]) = CallKey(calls[k]) }

\* the provider record under the call's key holds exactly the call's values
AnswersAre(c) ==
    \E j \in DOMAIN zone_data :
        /\ RecordKey(zone_data[j]) = CallKey(c)
        /\ Len(zone_data[j].answers) = Len(c.values)
        /\ \A m \in DOMAIN c.values :
              zone_data[j].answers[m] = [answer |-> <<c.values[m]>>]

(* C8: after a successful flip the record under (fqdn, recordType, zone)    *)
(* holds exactly the new values, one answer each, in order, and no earlier  *)
(* answer; in flip_app the new values are the comma-separated pieces of the *)
(* selected value string, so "x,y" gives the two answers x then y.          *)
C8_FlipReplacesAnswerSet ==
    /\ \A k \in StandingUpdates : AnswersAre(calls[k])
    /\ IsFlipApp =>
         \A k \in DOMAIN calls :
            calls[k].op = "update" =>
               LET v == Records[calls[k].idx][args.site]
                   parts == calls[k].values
               IN  /\ Join(parts, ",") = v
                   /\ \A m \in DOMAIN parts :
                         \A n \in DOMAIN parts[m] : parts[m][n] # ","
                   /\ v = <<"x", ",", "y">> => parts = << <<"x">>, <<"y">> >>

\* a batch that sent "x,y": the record now answers x then y and nothing else
C8_Witness ==
    /\ IsFlipApp /\ pc = "done"
    /\ \E k \in StandingUpdates :
          /\ calls[k].values = << <<"x">>, <<"y">> >>
          /\ \E j \in DOMAIN zone_data :
                /\ RecordKey(zone_data[j]) = CallKey(calls[k])
                /\ zone_data[j].answers = << [answer |-> << <<"x">> >>],
                                             [answer |-> << <<"y">> >>] >>

----------------------------------------------------------------------------
\* what the locator returns for the i-th declared record
LocatorHits(i) == search_records(zone_data, DeclaredFqdn(i))

Skipped(i) ==
    Len(flips_summary) >= i /\ flips_summary[i].status = "skipped-no-match"

Min(S) == CHOOSE x \in S : \A y \in S : x <= y

(* C9 as claimed: a declared record is matched whenever the locator returns *)
(* at least one record (the fqdn or a strict subdomain), and the executor   *)
(* gets the zone of the first record the locator returned.                  *)
C9_MatchedOnAnyLocatorHit ==
    IsFlipApp =>
        \A i \in RecordIdx :
            /\ Skipped(i) => LocatorHits(i) = <<>>
            /\ \A k \in CallsOf("loadRecord", i) :
                  /\ LocatorHits(i) # <<>>
                  /\ calls[k].zone = LocatorHits(i)[1][2]

(* C9 as amended: a declared record is matched exactly when the locator     *)
(* returns a record whose domain is the fqdn itself; the executor gets the  *)
(* zone of the first such record in return order; a record whose only hits  *)
(* are strict subdomains is skipped.                                        *)
C9_MatchedOnExactHit ==
    IsFlipApp =>
        \A i \in RecordIdx :
            /\ Skipped(i) => ExactHits(DeclaredFqdn(i)) = {}
            /\ (SearchSucceeded(i) /\ ExactHits(DeclaredFqdn(i)) = {}) => Skipped(i)
            /\ \A k \in CallsOf("loadRecord", i) :
                  /\ ExactHits(DeclaredFqdn(i)) # {}
                  /\ calls[k].zone = zone_data[Min(ExactHits(DeclaredFqdn(i)))].zone
            /\ (SearchSucceeded(i) /\ ExactHits(DeclaredFqdn(i)) # {}) =>
                  (pc = "flip" /\ idx = i) \/ ExecutorCalls(i) = 1

\* the locator's first hit is a strict subdomain in another zone than the
\* exact record, and a record with only subdomain hits was skipped
C9_Witness ==
    /\ IsFlipApp
    /\ \E i \in RecordIdx :
          /\ ExecutorCalls(i) = 1
          /\ LocatorHits(i)[1][1] # DeclaredFqdn(i)
          /\ \E k \in CallsOf("loadRecord", i) :
                calls[k].zone # LocatorHits(i)[1][2]

C9_WitnessSkip ==
    /\ IsFlipApp
    /\ \E i \in RecordIdx : Skipped(i) /\ LocatorHits(i) # <<>>

----------------------------------------------------------------------------
\* the provider records check is to print: type A or CNAME, domain is the fqdn
CheckExpected ==
    SelectSeq(zone_data,
              LAMBDA r : r.domain = args.fqdn /\ r.type \in LocatorTypes)

(* C10: check prints one entry for each provider record of type A or CNAME  *)
(* whose domain is the fqdn itself, in order, and none for a strict         *)
(* subdomain; when there is no such record it prints the not-found line.    *)
C10_CheckReportsExactOnly ==
    (args.action = "check" /\ pc = "done") =>
        IF CheckExpected = <<>>
        THEN out = << [line |-> "no_records", fqdn |-> args.fqdn] >>
        ELSE /\ Len(out) = Len(CheckExpected)
             /\ \A k \in DOMAIN out :
                   /\ out[k].line = "record"
                   /\ out[k].domain = args.fqdn
                   /\ out[k].zone = CheckExpected[k].zone
                   /\ out[k].record_type = CheckExpected[k].type

\* the locator returned the fqdn's own record and one of a strict subdomain
C10_Witness ==
    /\ args.action = "check" /\ pc = "done"
    /\ Len(search_records(zone_data, args.fqdn)) = 2
    /\ Len(out) = 1 /\ out[1].line = "record"

\* the locator returned only a strict subdomain: the not-found line is printed
C10_WitnessNone ==
    /\ args.action = "check" /\ pc = "done"
    /\ search_records(zone_data, args.fqdn) # <<>>
    /\ out = << [line |-> "no_records", fqdn |-> args.fqdn] >>

----------------------------------------------------------------------------
(* C11: when the provider search fails, check ends normally with an error   *)
(* result: it prints neither matching records nor the not-found line, and   *)
(* no exception is left unhandled.                                          *)
C11_CheckSearchFailureReported ==
    (args.action = "check" /\ \E k \in DOMAIN calls : ~calls[k].ok) =>
        /\ pc = "done"
        /\ exc = "none"
        /\ \E k \in DOMAIN out : out[k].line = "search_error"
        /\ \A k \in DOMAIN out : out[k].line \notin {"record", "no_records"}

----------------------------------------------------------------------------
\* domain is fqdn, or some prefix followed by a dot followed by fqdn
IsSelfOrSubdomain(domain, fqdn) ==
    \/ domain = fqdn
    \/ \E n \in 0..Len(domain) : domain = SubSeq(domain, 1, n) \o <<".">> \o fqdn

\* positions of the provider records the locator is to return for fqdn
WantedHits(fqdn) ==
    { j \in DOMAIN zone_data :
        /\ zone_data[j].type = "A" \/ zone_data[j].type = "CNAME"
        /\ IsSelfOrSubdomain(zone_data[j].domain, fqdn) }

(* C19: when the search succeeds the locator returns exactly the provider   *)
(* results of type A or CNAME whose domain is the fqdn or ends with         *)
(* '.' + fqdn, in provider order; other types, and domains that end with    *)
(* the fqdn without the dot, are left out.                                  *)
C19_LocatorKeepsSelfAndSubdomains ==
    \A f \in Fqdns :
        LET found == search_records(zone_data, f)
            wanted == WantedHits(f)
        IN  /\ Len(found) = Cardinality(wanted)
            /\ \A j \in wanted :
                  LET k == Cardinality({ i \in wanted : i <= j })
                  IN  /\ found[k][1] = zone_data[j].domain
                      /\ found[k][2] = zone_data[j].zone
                      /\ found[k][3] = zone_data[j].type
                      /\ Len(found[k][4]) = Len(zone_data[j].answers)
                      /\ \A m \in DOMAIN found[k][4] :
                            found[k][4][m] = zone_data[j].answers[m].answer[1]
            /\ \A k \in DOMAIN found :
                  /\ found[k][3] # "TXT"
                  /\ f = FqdnA => found[k][1] # FqdnWAnodot

\* a search for "a" that succeeded over a TXT record, the record of "wa" and
\* the record of the subdomain "w.a": only the last is returned
C19_Witness ==
    /\ \E k \in DOMAIN calls :
          calls[k].op = "searchZone" /\ calls[k].ok /\ calls[k].fqdn = FqdnA
    /\ \E i, j, l \in DOMAIN zone_data :
          /\ zone_data[i].type = "TXT"
          /\ zone_data[j].domain = FqdnWAnodot
          /\ zone_data[l].domain = FqdnWA
    /\ Len(search_records(zone_data, FqdnA)) = 1

----------------------------------------------------------------------------
(* C17: no step of flip_app, with or without -list, for a known or an       *)
(* unknown application, changes the configuration model: no key is added    *)
(* and no record is added, removed or altered.                              *)
C17_ConfigUnchangedAfterParsing ==
    [][args.action = "flip_app" => flip_config' = flip_config]_vars

\* the detail listing of an application that is not in the model has ended
C17_Witness ==
    /\ args.action = "flip_app" /\ args.list /\ args.app = "ghost"
    /\ pc = "done" /\ out # <<>>
    /\ DOMAIN flip_config = {"app1"}

----------------------------------------------------------------------------
(* Repeated runs: the script is invoked again on the same file and provider *)

\* a new process: flip_app for the same application and any site, against the
\* provider records the earlier runs left
Rerun ==
    /\ pc = "done" /\ IsFlipApp
    /\ Len(runs) < MaxRuns
    /\ \E s \in Sites : args' = [args EXCEPT !.site = s]
    /\ pc' = "start"
    /\ idx' = 0
    /\ zone' = None
    /\ flips_summary' = <<>>
    /\ out' = <<>>
    /\ calls' = <<>>
    /\ UNCHANGED <<flip_config, zone_data, exc, parse_vars, runs>>

InitTwice == InitCommon /\ InitParsed /\ InitFlipApp

NextTwice ==
    \/ FlipAppNotFound
    \/ FlipAppBegin
    \/ FlipAppSearchFail
    \/ FlipAppSkip
    \/ FlipAppLocated
    \/ FlipAppLoadFail
    \/ FlipAppUpdateFail
    \/ FlipAppApplied
    \/ FlipAppReport
    \/ Rerun

SpecTwice == InitTwice /\ [][NextTwice]_vars

\* in the provider records db, the record the i-th declared record is flipped
\* on holds exactly the comma-separated pieces of `value`, one per answer
HoldsValue(db, i, value) ==
    LET z == db[Min(ExactHits(DeclaredFqdn(i)))].zone
    IN  \E j \in DOMAIN db :
           /\ RecordKey(db[j]) = <<DeclaredFqdn(i), Records[i].fqdn[2], z>>
           /\ \A m \in DOMAIN db[j].answers : Len(db[j].answers[m].answer) = 1
           /\ LET vals == [ m \in DOMAIN db[j].answers |-> db[j].answers[m].answer[1] ]
              IN  /\ Join(vals, ",") = value
                  /\ \A m \in DOMAIN vals : \A n \in DOMAIN vals[m] : vals[m][n] # ","

(* C20: when every update succeeds, a second flip_app run for the same site *)
(* leaves the provider records as the first run left them, and after any    *)
(* completed run each matched record holds exactly the values of that run's *)
(* site, whatever it held before.                                           *)
C20_FlipIdempotentLastWriterWins ==
    (IsFlipApp /\ pc = "done") =>
        LET n == Len(runs)
        IN  /\ runs[n].zone_data = zone_data
            /\ (n > 1 /\ runs[n].site = runs[n - 1].site) =>
                  runs[n].zone_data = runs[n - 1].zone_data
            /\ \A i \in RecordIdx :
                  ExactHits(DeclaredFqdn(i)) # {} =>
                      HoldsValue(zone_data, i, Records[i][runs[n].site])

\* two completed runs for different sites, the second of which changed a record
C20_Witness ==
    /\ Len(runs) = 2
    /\ runs[1].site # runs[2].site
    /\ runs[1].zone_data # runs[2].zone_data

\* two completed runs for the same site after a record was flipped
C20_WitnessSameSite ==
    /\ Len(runs) = 2
    /\ runs[1].site = runs[2].site
    /\ \E j \in DOMAIN zone_data : zone_data[j].answers # OldAnswers

----------------------------------------------------------------------------
(* parse_flip_config: the Config Parser *)

IsSpace(c) == c = " "

\* str.strip, one end at a time
RECURSIVE LStrip(_)
LStrip(s) == IF s # <<>> /\ IsSpace(Head(s)) THEN LStrip(Tail(s)) ELSE s

RECURSIVE RStrip(_)
RStrip(s) ==
    IF s # <<>> /\ IsSpace(s[Len(s)]) THEN RStrip(SubSeq(s, 1, Len(s) - 1)) ELSE s

Strip(s) == RStrip(LStrip(s))

\* str.startswith
StartsWith(s, prefix) ==
    Len(s) >= Len(prefix) /\ SubSeq(s, 1, Len(prefix)) = prefix

\* the length of the run of non-blank characters s starts with
RECURSIVE WordLen(_)
WordLen(s) == IF s = <<>> \/ IsSpace(Head(s)) THEN 0 ELSE 1 + WordLen(Tail(s))

\* str.split() without arguments: the words between runs of blanks
RECURSIVE SplitWords(_)
SplitWords(s) ==
    LET t == LStrip(s)
    IN  IF t = <<>> THEN <<>>
        ELSE <<SubSeq(t, 1, WordLen(t))>>
                 \o SplitWords(SubSeq(t, WordLen(t) + 1, Len(t)))

\* the position of the first occurrence of sep in s at or after k, or 0
RECURSIVE FindStr(_, _, _)
FindStr(s, sep, k) ==
    IF k + Len(sep) - 1 > Len(s) THEN 0
    ELSE IF SubSeq(s, k, k + Len(sep) - 1) = sep THEN k
    ELSE FindStr(s, sep, k + 1)

\* str.split(sep) for a separator of any length
RECURSIVE SplitStr(_, _)
SplitStr(s, sep) ==
    LET k == FindStr(s, sep, 1)
    IN  IF k = 0 THEN <<s>>
        ELSE <<SubSeq(s, 1, k - 1)>>
                 \o SplitStr(SubSeq(s, k + Len(sep), Len(s)), sep)

KwFqdnColon == <<"f", "q", "d", "n", ":">>
KwFqdn == <<"f", "q", "d", "n">>
KwPrimary == <<"p", "r", "i", "m", "a", "r", "y">>
KwSecondary == <<"s", "e", "c", "o", "n", "d", "a", "r", "y">>
KwFoo == <<"f", "o", "o">>
KwColonSpace == <<":", " ">>

\* the dictionary key a parsed key string is: the same string
KeyName(key) ==
    IF key = KwFqdn THEN "fqdn"
    ELSE IF key = KwPrimary THEN "primary"
    ELSE IF key = KwSecondary THEN "secondary"
    ELSE IF key = KwFoo THEN "foo"
    ELSE "other"

\* lines of configuration files
LineHeaderA == <<"[", "a", "]">>
LineHeaderB == <<"[", "b", "]">>
LineFqdn1 == <<"f", "q", "d", "n", ":", " ", "a", " ", "A">>
LinePrimary1 == <<" ", " ", "p", "r", "i", "m", "a", "r", "y", ":", " ", "x">>
LineSecondary1 == <<"s", "e", "c", "o", "n", "d", "a", "r", "y", ":", " ", "z", " ">>
LineFqdn2 == <<"f", "q", "d", "n", ":", " ", "w", ".", "a", " ", "A">>
LinePrimary2 == <<"p", "r", "i", "m", "a", "r", "y", ":", " ", "y">>
LineSecondary2 == <<"s", "e", "c", "o", "n", "d", "a", "r", "y", ":", " ", "x">>
LineComment == <<"#", " ", "c">>
LineBlank == <<" ">>
LineFoo == <<"f", "o", "o", ":", " ", "b", "a", "r">>
LineBad == <<"o", "o", "p", "s">>

Block1 == <<LineFqdn1, LinePrimary1, LineSecondary1>>
Block2 == <<LineFqdn2, LinePrimary2, LineSecondary2>>

\* the pieces configuration files are put together from
ChunkPool ==
    { <<LineHeaderA, LineComment, LineBlank>> \o Block1,
      <<LineHeaderB>> \o Block2,
      <<LineHeaderA>> \o Block2,
      <<LineHeaderA>>,
      <<LineSecondary1>>,
      <<LineFoo>>,
      <<LineBad>> }

RECURSIVE Flatten(_)
Flatten(chunks) ==
    IF chunks = <<>> THEN <<>> ELSE Head(chunks) \o Flatten(Tail(chunks))

Files == { Flatten(cs) : cs \in SeqUpTo(ChunkPool, MaxChunks) }

\* line = line.strip(), for the line the loop is at
CurLine == Strip(file[lineno + 1])

IsSkipped(line) == line = <<>> \/ StartsWith(line, <<"#">>)
IsHeader(line) == StartsWith(line, <<"[">>) /\ EndsWith(line, <<"]">>)
IsFqdnLine(line) == StartsWith(line, KwFqdnColon)

\* line[5:].split()
FqdnWords(line) == SplitWords(SubSeq(line, Len(KwFqdnColon) + 1, Len(line)))

\* line.split(': ')
KeyValue(line) == SplitStr(line, KwColonSpace)

\* current_record[key] = value
WithField(record, key, value) == (key :> value) @@ record

Sealed_replace(config, app, record) ==
    [AfterGetItem(config, app) EXCEPT ![app] = <<record>>]

\* flip_config[current_application].append(current_record)
Sealed(config, app, record) ==
    [AfterGetItem(config, app) EXCEPT ![app] = Append(@, record)]

AfterSeal_keep(record) == record

\* current_record = {} once the record is appended
AfterSeal(record) == EmptyRecord

\* current_application = line[1:-1]
HeaderName(line, current) == SubSeq(line, 2, Len(line) - 1)

Parsing == pc = "parse" /\ lineno < Len(file)

\* an empty line or a comment
ParseSkip ==
    /\ Parsing /\ IsSkipped(CurLine)
    /\ lineno' = lineno + 1
    /\ UNCHANGED <<args, flip_config, zone_data, pc, idx, zone, flips_summary, out, exc,
                 calls, file, current_application, current_record, runs>>

\* [name]
ParseHeader ==
    /\ Parsing /\ ~IsSkipped(CurLine) /\ IsHeader(CurLine)
    /\ current_application' = HeaderName(CurLine, current_application)
    /\ lineno' = lineno + 1
    /\ UNCHANGED <<args, flip_config, zone_data, pc, idx, zone, flips_summary, out, exc,
                 calls, file, current_record, runs>>

\* fqdn: <fqdn> <record_type>
ParseFqdn ==
    /\ Parsing /\ ~IsSkipped(CurLine) /\ ~IsHeader(CurLine) /\ IsFqdnLine(CurLine)
    /\ Len(FqdnWords(CurLine)) = 2
    /\ current_record' = WithField(current_record, "fqdn", FqdnWords(CurLine))
    /\ lineno' = lineno + 1
    /\ UNCHANGED <<args, flip_config, zone_data, pc, idx, zone, flips_summary, out, exc,
                 calls, file, current_application, runs>>

IsKeyValueLine(line) == ~IsSkipped(line) /\ ~IsHeader(line) /\ ~IsFqdnLine(line)

NewRecord == WithField(current_record, KeyName(KeyValue(CurLine)[1]),
                       KeyValue(CurLine)[2])

\* key: value, after which the record has no 'secondary'
ParseField ==
    /\ Parsing /\ IsKeyValueLine(CurLine)
    /\ Len(KeyValue(CurLine)) = 2
    /\ "secondary" \notin DOMAIN NewRecord
    /\ current_record' = NewRecord
    /\ lineno' = lineno + 1
    /\ UNCHANGED <<args, flip_config, zone_data, pc, idx, zone, flips_summary, out, exc,
                 calls, file, current_application, runs>>

\* key: value, after which the record has 'secondary': it is appended to the
\* current application's list and a new record is begun
ParseSeal ==
    /\ Parsing /\ IsKeyValueLine(CurLine)
    /\ Len(KeyValue(CurLine)) = 2
    /\ "secondary" \in DOMAIN NewRecord
    /\ flip_config' = Sealed(flip_config, current_application, NewRecord)
    /\ current_record' = AfterSeal(NewRecord)
    /\ lineno' = lineno + 1
    /\ UNCHANGED <<args, zone_data, pc, idx, zone, flips_summary, out, exc,
                 calls, file, current_application, runs>>

\* the tuple assignment gets another number of parts than two: ValueError,
\* which nothing catches
ParseValueError ==
    /\ Parsing /\ ~IsSkipped(CurLine) /\ ~IsHeader(CurLine)
    /\ IF IsFqdnLine(CurLine) THEN Len(FqdnWords(CurLine)) # 2
                              ELSE Len(KeyValue(CurLine)) # 2
    /\ exc' = "ValueError"
    /\ pc' = "crashed"
    /\ UNCHANGED <<args, flip_config, zone_data, idx, zone, flips_summary, out,
                 calls, parse_vars, runs>>

\* the file is read: return flip_config to main
ParseEnd ==
    /\ pc = "parse" /\ lineno = Len(file)
    /\ pc' = "start"
    /\ UNCHANGED <<args, flip_config, zone_data, idx, zone, flips_summary, out, exc,
                 calls, parse_vars, runs>>

\* flip_app -file f -app a -site s: the file is parsed first, then flipped
\* against a provider that holds no record
InitParse ==
    /\ \E a \in {<<"a">>, <<"b">>}, s \in Sites :
         args = [NoArgs EXCEPT !.action = "flip_app", !.app = a, !.site = s]
    /\ file \in Files
    /\ lineno = 0
    /\ current_application = NoApp
    /\ current_record = EmptyRecord
    /\ flip_config = EmptyConfig
    /\ zone_data = <<>>
    /\ pc = "parse"
    /\ idx = 0
    /\ zone = None
    /\ flips_summary = <<>>
    /\ out = <<>>
    /\ exc = "none"
    /\ calls = <<>>
    /\ runs = <<>>

NextParse ==
    \/ ParseSkip
    \/ ParseHeader
    \/ ParseFqdn
    \/ ParseField
    \/ ParseSeal
    \/ ParseValueError
    \/ ParseEnd
    \/ FlipAppNotFound
    \/ FlipAppBegin
    \/ FlipAppKeyError
    \/ FlipAppSearchFail
    \/ FlipAppSkip
    \/ FlipAppReport

SpecParse == InitParse /\ [][NextParse]_vars

----------------------------------------------------------------------------
(* Properties of the Config Parser *)

\* the application names in the configuration's keys
AppA == <<"a">>
AppB == <<"b">>

\* what the two record blocks declare
Declared1 == [fqdn |-> <<FqdnA, <<"A">>>>, primary |-> <<"x">>, secondary |-> <<"z">>]
Declared2 == [fqdn |-> <<FqdnWA, <<"A">>>>, primary |-> <<"y">>, secondary |-> <<"x">>]

\* the files that are a header and a complete record block, repeated
CompleteChunks ==
    { <<LineHeaderA, LineComment, LineBlank>> \o Block1,
      <<LineHeaderB>> \o Block2,
      <<LineHeaderA>> \o Block2 }

ChunkApp(chunk) == IF chunk[1] = LineHeaderA THEN AppA ELSE AppB
ChunkRecord(chunk) == IF chunk[Len(chunk)] = LineSecondary1 THEN Declared1 ELSE Declared2

\* the records the blocks of one application declare, in file order
RECURSIVE BlocksOf(_, _)
BlocksOf(app, chunks) ==
    IF chunks = <<>> THEN <<>>
    ELSE (IF ChunkApp(Head(chunks)) = app THEN <<ChunkRecord(Head(chunks))>> ELSE <<>>)
             \o BlocksOf(app, Tail(chunks))

ParsedTo(pcs) == pc \in pcs /\ exc # "ValueError"

RecordsOf(config, app) == IF app \in DOMAIN config THEN config[app] ELSE <<>>

IsPrefix(s, t) == Len(s) <= Len(t) /\ SubSeq(t, 1, Len(s)) = s

\* C12: a file of headers with complete record blocks, the same header
\* appearing any number of times, is parsed to one entry for each application
\* that holds the records of all of its blocks in file order; and at every
\* step of parsing, each application's list keeps the records it had, in
\* their places: a reopened application is appended to, never replaced, and
\* the other applications' lists are as they were.
C12_ReopenedHeaderAppends ==
    /\ [](\A cs \in SeqUpTo(CompleteChunks, MaxChunks) :
            (file = Flatten(cs) /\ ParsedTo({"start"})) =>
                \A app \in {AppA, AppB} :
                    RecordsOf(flip_config, app) = BlocksOf(app, cs))
    /\ [][pc = "parse" =>
            \A app \in DOMAIN flip_config :
                /\ app \in DOMAIN flip_config'
                /\ IsPrefix(flip_config[app], flip_config'[app])
                /\ app # current_application =>
                       flip_config'[app] = flip_config[app]]_vars

\* [a] block, [b] block, [a] block is parsed: a has both of its records, in
\* file order, and b the one between them
C12_Witness ==
    /\ ParsedTo({"start"})
    /\ file = <<LineHeaderA, LineComment, LineBlank>> \o Block1
                  \o <<LineHeaderB>> \o Block2 \o <<LineHeaderA>> \o Block2
    /\ flip_config = (AppA :> <<Declared1, Declared2>>) @@ (AppB :> <<Declared2>>)

LineAt(i) == Strip(file[i])

\* the lines read so far: the loop has gone past them
LinesRead == 1..lineno

IsRecordLine(line) ==
    /\ ~IsSkipped(line) /\ ~IsHeader(line)
    /\ \/ IsFqdnLine(line)
       \/ KeyValue(line)[1] \in {KwPrimary, KwSecondary}

HeaderBefore(i) == \E j \in 1..(i - 1) : ~IsSkipped(LineAt(j)) /\ IsHeader(LineAt(j))

\* C13: once a record line that no [name] line came before is read, parsing
\* has failed with ConfigFormatError, and nothing is stored under any key.
C13_RecordBeforeHeaderRejected ==
    \A i \in LinesRead :
        (IsRecordLine(LineAt(i)) /\ ~HeaderBefore(i)) =>
            /\ exc = "ConfigFormatError"
            /\ flip_config = EmptyConfig

IsUnknownKeyLine(line) ==
    /\ IsKeyValueLine(line)
    /\ Len(KeyValue(line)) = 2
    /\ KeyValue(line)[1] \notin {KwFqdn, KwPrimary, KwSecondary}

\* C14: once a key: value line whose key is none of fqdn, primary, secondary
\* is read, parsing has failed with ConfigFormatError, and the key is no field
\* of the record in progress or of an admitted record.
C14_UnknownKeyRejected ==
    \A i \in LinesRead :
        IsUnknownKeyLine(LineAt(i)) =>
            /\ exc = "ConfigFormatError"
            /\ "foo" \notin DOMAIN current_record
            /\ \A app \in DOMAIN flip_config :
                   \A k \in 1..Len(flip_config[app]) :
                       "foo" \notin DOMAIN flip_config[app][k]

\* C15: every record admitted into the model under an application's name has
\* its fqdn and record type, its primary value and its secondary value.
C15_AdmittedRecordsComplete ==
    \A app \in DOMAIN flip_config \ {NoApp} :
        \A k \in 1..Len(flip_config[app]) :
            {"fqdn", "primary", "secondary"} \subseteq DOMAIN flip_config[app][k]

HeadersRead ==
    { HeaderName(LineAt(i), NoApp) :
          i \in { j \in LinesRead : ~IsSkipped(LineAt(j)) /\ IsHeader(LineAt(j)) } }

NotFoundPrinted == \E k \in 1..Len(out) : out[k].line = "app_not_found"

\* C16: every application name of a header that is read is a key of the
\* model, and flip_app for a name whose header is in the file does not end
\* with application not found.
C16_HeaderNamesAreKeys ==
    /\ HeadersRead \subseteq DOMAIN flip_config
    /\ (args.app \in HeadersRead) => ~NotFoundPrinted

IsSecondaryLine(line) == IsKeyValueLine(line) /\ KeyValue(line)[1] = KwSecondary

SecondaryLinesRead == Cardinality({ i \in LinesRead : IsSecondaryLine(LineAt(i)) })

RECURSIVE SumLen(_, _)
SumLen(config, apps) ==
    IF apps = {} THEN 0
    ELSE LET app == CHOOSE a \in apps : TRUE
         IN  Len(config[app]) + SumLen(config, apps \ {app})

Admitted == SumLen(flip_config, DOMAIN flip_config)

\* the lines i-2, i-1, i are a block fqdn, primary, secondary
BlockEndsAt(i, block) ==
    i >= 3 /\ SubSeq(file, i - 2, i) = block

LastRecord(app) == flip_config[app][Len(flip_config[app])]

SameFields(record, declared) ==
    \A key \in DOMAIN declared :
        key \in DOMAIN record /\ record[key] = declared[key]

\* C18: while parsing, the record in progress never holds 'secondary', and
\* the number of admitted records is the number of secondary lines read. The
\* step that reads a secondary line, and no other step, appends one record to
\* the list of the application that is current at that step, the record in
\* progress with the line's value as its 'secondary', and leaves the record in
\* progress empty; read as the last line of a block fqdn, primary, secondary
\* the record has the block's three values. The step that reads a [name] line
\* changes the current application to name, and neither the record in
\* progress nor the model.
C18_SealedAtSecondary ==
    /\ [](pc = "parse" => "secondary" \notin DOMAIN current_record)
    /\ [](Admitted = SecondaryLinesRead)
    /\ [][lineno' = lineno + 1 =>
            LET line == CurLine
                app == current_application
            IN  /\ IsSecondaryLine(line) =>
                       /\ current_record' = EmptyRecord
                       /\ app \in DOMAIN flip_config'
                       /\ flip_config'[app] =
                              Append(RecordsOf(flip_config, app),
                                     WithField(current_record, "secondary",
                                               KeyValue(line)[2]))
                       /\ "secondary" \notin DOMAIN current_record
                       /\ BlockEndsAt(lineno', Block1) =>
                              SameFields(LastRecord(app)', Declared1)
                       /\ BlockEndsAt(lineno', Block2) =>
                              SameFields(LastRecord(app)', Declared2)
                /\ ~IsSecondaryLine(line) => flip_config' = flip_config
                /\ (~IsSkipped(line) /\ IsHeader(line)) =>
                       /\ current_application' = SubSeq(line, 2, Len(line) - 1)
                       /\ current_record' = current_record
                /\ ~(~IsSkipped(line) /\ IsHeader(line)) =>
                       current_application' = current_application]_vars

\* a block fqdn, primary, secondary was read under [b] after an earlier record
\* was admitted under [a]: b holds exactly the block's record
C18_Witness ==
    /\ pc = "parse"
    /\ lineno = Len(file)
    /\ BlockEndsAt(lineno, Block2)
    /\ current_application = AppB
    /\ current_record = EmptyRecord
    /\ AppA \in DOMAIN flip_config /\ AppB \in DOMAIN flip_config
    /\ flip_config[AppB] = <<Declared2>>
    /\ Admitted = 2

\* a [name] line was read while a record was in progress
C18_WitnessHeader ==
    /\ pc = "parse"
    /\ lineno > 1
    /\ IsHeader(LineAt(lineno))
    /\ current_application = HeaderName(LineAt(lineno), NoApp)
    /\ current_record # EmptyRecord

====
